---- MODULE Spec2Model ----
(***************************************************************************)
(* The sandboxed code-execution orchestrator of pandasai_pod:              *)
(*   PodSandboxManager (pod_manager.py)  - the Workload Lifecycle Manager  *)
(*   PodSandbox        (pod_sandbox.py)  - the Sandbox Facade              *)
(* together with the scheduler (Kubernetes API) and the Execution Endpoint *)
(* as an environment that answers each request.                            *)
(*                                                                         *)
(* One caller drives one session, one operation at a time (the Facade's    *)
(* blocking convention, loop.run_until_complete).  Every await of the      *)
(* Manager's coroutines is a control point (pc); the code between two      *)
(* awaits is one step.  A coroutine awaited by another one leaves a        *)
(* continuation on the stack; its result (ret) is handed to that           *)
(* continuation by the continuation's own action.                          *)
(* The Facade's caller is synchronous code outside any running event loop: *)
(* the branch "else" of each loop.is_running() test.                       *)
(***************************************************************************)
EXTENDS Integers, Sequences, FiniteSets, TLC

VARIABLES
    mode,           \* "manager": the caller holds a PodSandboxManager; "facade": a PodSandbox
    session_id,     \* PodSandboxManager.session_id of the Manager in use (0: none constructed)
    m_started,      \* PodSandboxManager._started
    f_started,      \* PodSandbox._started
    f_pod_manager,  \* PodSandbox._pod_manager is not None (it is the Manager session_id names)
    nextId,         \* the next fresh uuid
    pod,            \* scheduler: the workload named python-sandbox-<id>
    svc,            \* scheduler: the service named python-sandbox-<id> exists
    pc,             \* control point of the running coroutine
    stack,          \* continuations of the awaiting callers, innermost first
    ret,            \* the value returned / exception raised that is being delivered
    polls,          \* iterations done by _wait_for_pod_ready's loop
    op,             \* the operation the caller invoked last
    log,            \* requests issued and calls made since the caller invoked op
    pre,            \* the session as it was when the caller invoked op
    prev,           \* the operation completed before op, and how it ended
    evictions,      \* resources removed by the scheduler itself so far
    timeout,        \* the timeout argument of execute_code (PodSandbox.timeout), in ticks
    call,           \* per execute_code coroutine followed into the workload: the call, its
                    \* /execute request and the executor's worker running the request's code
    rt,             \* one execution followed value by value: code, locals, answer, results
    modules         \* the workload process's module objects (sys.modules), as far as
                    \* submitted code has changed them: the attribute marker of pandas

vars == <<mode, session_id, m_started, f_started, f_pod_manager, nextId, pod, svc,
          pc, stack, ret, polls, op, log, pre, prev, evictions, timeout, call, rt,
          modules>>

\* the session and the scheduler; the workload's inside
sessionVars == <<mode, session_id, m_started, f_started, f_pod_manager, nextId, pod, svc,
                 pc, stack, ret, polls, op, log, pre, prev, evictions>>
inPodVars == <<timeout, call, rt, modules>>

\* ---------------------------------------------------------------- bounds
MaxSessions == 2     \* Managers a Facade constructs in one run
MaxEvictions == 1    \* resources the scheduler removes on its own in one run
MaxCalls == 2        \* execute_code coroutines running concurrently on one Manager
MaxTimeout == 2      \* largest timeout argument, in ticks of the clock
MaxLen == 2          \* entries of a list, tuple or dict literal

\* _wait_for_pod_ready(timeout=60): range(timeout)
ReadyTimeout == 60

Ids == 1..MaxSessions
Calls == 1..MaxCalls
Timeouts == 1..MaxTimeout

\* ---------------------------------------------------------------- values
NoRet == [kind |-> "none", val |-> "none", cause |-> "none"]
Return(v) == [kind |-> "return", val |-> v, cause |-> "none"]
Raise(v) == [kind |-> "raise", val |-> v, cause |-> "none"]
RaiseFrom(v, c) == [kind |-> "raise", val |-> v, cause |-> c]

Cont(k, e) == [k |-> k, e |-> e]
Req(r, a) == [req |-> r, ans |-> a]

Snapshot == [m_started |-> m_started, f_started |-> f_started,
             f_pod_manager |-> f_pod_manager, session_id |-> session_id,
             pod |-> pod, svc |-> svc]

Idle == pc = "idle"
Done == pc = "resume" /\ stack = <<>>


\* ---------------------------------------------------------------- Python and JSON values
\* a Python value: its type, its repr for a scalar, its entries for a container;
\* an entry is a key (type, repr; none in a list or tuple) and a scalar
Scalar(t, a) == [t |-> t, a |-> a, items |-> <<>>]
Container(t, items) == [t |-> t, a |-> "", items |-> items]
Entry(kt, k, t, a) == [kt |-> kt, k |-> k, t |-> t, a |-> a]

PyNone == Scalar("NoneType", "None")
PyStr(a) == Scalar("str", a)

Scalars == {PyNone, Scalar("bool", "True"), Scalar("int", "42"), Scalar("float", "3.14"),
            PyStr("number")}
Keys == {PyStr("type"), PyStr("value"), Scalar("int", "1")}

SeqsUpTo(S, n) == UNION {[1..m -> S] : m \in 0..n}

Elements == {Entry("", "", x.t, x.a) : x \in Scalars}
Pairs == {Entry(k.t, k.a, x.t, x.a) : k \in Keys, x \in Scalars}
DistinctKeys(items) ==
    \A i, j \in DOMAIN items : i # j => <<items[i].kt, items[i].k>> # <<items[j].kt, items[j].k>>

\* the literals a submitted assignment binds to result
Literals ==
    Scalars
    \cup {Container(t, items) : t \in {"list", "tuple"}, items \in SeqsUpTo(Elements, MaxLen)}
    \cup {Container("dict", items) : items \in {q \in SeqsUpTo(Pairs, MaxLen) : DistinctKeys(q)}}

\* a JSON document: its kind, its text for a scalar (frac: the number's text has a
\* fraction), its members for an array or object; a member is a name and a scalar
Json(j, a, frac) == [j |-> j, a |-> a, frac |-> frac, members |-> <<>>]
JsonOf(j, members) == [j |-> j, a |-> "", frac |-> FALSE, members |-> members]
Member(name, x) == [name |-> name, j |-> x.j, a |-> x.a, frac |-> x.frac]

\* the encoder on a scalar of type t and repr a
JsonScalar(t, a) ==
    CASE t = "NoneType" -> Json("null", "null", FALSE)
      [] t = "bool" -> Json("bool", IF a = "True" THEN "true" ELSE "false", FALSE)
      [] t = "int" -> Json("number", a, FALSE)
      [] t = "float" -> Json("number", a, TRUE)
      [] OTHER -> Json("string", a, FALSE)

\* the encoder on a dict key: an object's names are strings
JsonName(kt, k) == IF kt = "str" THEN k ELSE JsonScalar(kt, k).a

\* the response body as serialised by the server: a list and a tuple are both an
\* array, a dict is an object
JsonEncode(v) ==
    CASE v.t \in {"list", "tuple"} ->
           JsonOf("array", [i \in DOMAIN v.items |->
                              Member("", JsonScalar(v.items[i].t, v.items[i].a))])
      [] v.t = "dict" ->
           JsonOf("object", [i \in DOMAIN v.items |->
                               Member(JsonName(v.items[i].kt, v.items[i].k),
                                      JsonScalar(v.items[i].t, v.items[i].a))])
      [] OTHER -> JsonScalar(v.t, v.a)

\* the decoder (response.json()) on a scalar
PyScalar(j, a, frac) ==
    CASE j = "null" -> PyNone
      [] j = "bool" -> Scalar("bool", IF a = "true" THEN "True" ELSE "False")
      [] j = "number" -> Scalar(IF frac THEN "float" ELSE "int", a)
      [] OTHER -> PyStr(a)

JsonDecode(x) ==
    CASE x.j = "array" ->
           Container("list", [i \in DOMAIN x.members |->
                                LET e == PyScalar(x.members[i].j, x.members[i].a,
                                                  x.members[i].frac)
                                IN  Entry("", "", e.t, e.a)])
      [] x.j = "object" ->
           Container("dict", [i \in DOMAIN x.members |->
                                LET e == PyScalar(x.members[i].j, x.members[i].a,
                                                  x.members[i].frac)
                                IN  Entry("str", x.members[i].name, e.t, e.a)])
      [] OTHER -> PyScalar(x.j, x.a, x.frac)

\* what JSON represents as it is: scalars, lists, dicts with string keys
JsonNative(v) ==
    /\ v.t # "tuple"
    /\ \A i \in DOMAIN v.items : v.items[i].kt \in {"", "str"}

\* ---------------------------------------------------------------- code and answers
\* submitted code, as far as the endpoint can tell programs apart: what it does to
\* its namespace, for how many ticks it runs, what it raises
Code(kind, dur, value, exc) == [kind |-> kind, dur |-> dur, value |-> value, exc |-> exc]
Exc(type, msg) == [type |-> type, msg |-> msg]
NoExc == Exc("", "")

Assign(v, d) == Code("assign", d, v, NoExc)       \* result = v, after d ticks of work
NoResult == Code("pass", 0, PyNone, NoExc)        \* binds no name result
Raising(e) == Code("raise", 0, PyNone, e)         \* raises e
Forever == Code("loop", 0, PyNone, NoExc)         \* while True: pass

Exceptions == {Exc("ZeroDivisionError", "division by zero"), Exc("TimeoutError", "timed out")}

\* the work of an assignment ends at once, one tick before or at a deadline of t
\* ticks, or never
Programs(t) ==
    {Assign(Scalar("int", "42"), d) : d \in {0, t - 1, t}}
    \cup {NoResult, Forever}
    \cup {Raising(e) : e \in Exceptions}

\* exec_locals: whether the name result is bound, and to what
Locals(bound, value) == [bound |-> bound, value |-> value]
EmptyLocals == Locals(FALSE, PyNone)

\* exec(request.code, exec_globals, exec_locals) returning normally
Exec(code) == IF code.kind = "assign" THEN Locals(TRUE, code.value) ELSE EmptyLocals

\* code that reads a name, and code that writes and reads an attribute of a module
\* of safe_modules
UseName == Code("name", 0, PyNone, NoExc)                    \* result = result
SetAttr == Code("setattr", 0, Scalar("int", "42"), NoExc)    \* pd.marker = 42
GetAttr == Code("getattr", 0, PyNone, NoExc)                 \* result = pd.marker

NameError == Exc("NameError", "name 'result' is not defined")
AttributeError == Exc("AttributeError", "module 'pandas' has no attribute 'marker'")

\* the code of the requests that look at what earlier requests left behind
NamespacePrograms ==
    {Assign(Scalar("int", "42"), 0), NoResult, UseName, SetAttr, GetAttr, Forever}

\* the attribute marker of the pandas module: whether it is set, and to what
Attr(bound, value) == [bound |-> bound, value |-> value]
NoAttr == Attr(FALSE, PyNone)

\* exec(request.code, exec_globals, exec_locals) on the exec_locals and the modules
\* it is given: what it leaves in them and what it raises.  exec_globals holds the
\* builtins and the modules, and no name result.
Ran(locals, mods, exc) == [locals |-> locals, modules |-> mods, exc |-> exc]
Run(code, locals, mods) ==
    CASE code.kind = "assign"  -> Ran(Locals(TRUE, code.value), mods, NoExc)
      [] code.kind = "raise"   -> Ran(locals, mods, code.exc)
      [] code.kind = "name"    -> IF locals.bound THEN Ran(locals, mods, NoExc)
                                  ELSE Ran(locals, mods, NameError)
      [] code.kind = "setattr" -> Ran(locals, Attr(TRUE, code.value), NoExc)
      [] code.kind = "getattr" -> IF mods.bound
                                  THEN Ran(Locals(TRUE, mods.value), mods, NoExc)
                                  ELSE Ran(locals, mods, AttributeError)
      [] OTHER                 -> Ran(locals, mods, NoExc)

Placeholder == PyStr("Code executed successfully")

PlaceholderAlways(locals) == Placeholder

\* exec_locals.get('result', 'Code executed successfully')
ExecutionResult(locals) == IF locals.bound THEN locals.value ELSE Placeholder

\* CodeExecutionResponse (execution_time, a wall-clock reading, is left out)
Response(success, result, error) == [success |-> success, result |-> result, error |-> error]
Success(locals) == Response(TRUE, ExecutionResult(locals), PyNone)
Failure(msg) == Response(FALSE, PyNone, PyStr(msg))

\* f"{type(e).__name__}: {str(e)}"
ErrorMessage(e) == e.type \o ": " \o e.msg

\* f"Execution timed out after {request.timeout} seconds"
TimeoutMessage(t) == "Execution timed out after " \o ToString(t) \o " seconds"

\* except asyncio.TimeoutError around the await: it catches the timer's error and
\* the same error raised by the code in the worker
IsTimeoutError(e) == e.type = "TimeoutError"

\* the handler's answer once the worker has raised e
Raised(e, t) == IF IsTimeoutError(e) THEN Failure(TimeoutMessage(t)) ELSE Failure(ErrorMessage(e))

\* the answer on the wire (status and JSON body), and no answer
Wire(resp) == [status |-> 200, success |-> resp.success,
               result |-> JsonEncode(resp.result), error |-> JsonEncode(resp.error)]
NoWire == [status |-> 0, success |-> FALSE,
           result |-> JsonEncode(PyNone), error |-> JsonEncode(PyNone)]

\* await response.json(): the dict execute_code returns
Body(wire) == [success |-> wire.success,
               result |-> JsonDecode(wire.result), error |-> JsonDecode(wire.error)]

\* {"result": result.get("result")}
FacadeResult(body) == [result |-> body.result]

\* how a call of execute_code ended
Outcome(kind, body, err) == [kind |-> kind, body |-> body, err |-> err]
NoOut == Outcome("none", Body(NoWire), "")

\* one execute_code coroutine and the request it posted
IdleCall == [pc |-> "idle", code |-> NoResult, age |-> 0, worker |-> "none", left |-> 0,
             locals |-> EmptyLocals, exc |-> NoExc, resp |-> NoWire, out |-> NoOut]

\* one execution followed from the code to the Facade's result
Trip(stage, code, locals, resp, body, out) ==
    [stage |-> stage, code |-> code, locals |-> locals, resp |-> resp, body |-> body,
     out |-> out]
NoTrip == [stage |-> "none"]

TypeOK ==
    /\ mode \in {"manager", "facade"}
    /\ session_id \in 0..MaxSessions
    /\ m_started \in BOOLEAN /\ f_started \in BOOLEAN /\ f_pod_manager \in BOOLEAN
    /\ nextId \in 1..(MaxSessions + 1)
    /\ pod \in [Ids -> {"absent", "active", "terminating"}]
    /\ svc \in [Ids -> BOOLEAN]
    /\ polls \in 0..(ReadyTimeout - 1)
    /\ evictions \in 0..MaxEvictions
    /\ timeout \in Timeouts
    /\ \A c \in DOMAIN call :
        /\ call[c].pc \in {"idle", "post", "done"}
        /\ call[c].age \in 0..MaxTimeout
        /\ call[c].worker \in {"none", "running", "finished", "raised"}
        /\ call[c].left \in 0..MaxTimeout
    /\ rt.stage \in {"none", "submitted", "executed", "answered", "returned", "result"}
    /\ modules \in {NoAttr, Attr(TRUE, Scalar("int", "42"))}

Init ==
    /\ mode \in {"manager", "facade"}
    /\ session_id = IF mode = "manager" THEN 1 ELSE 0
    /\ nextId = IF mode = "manager" THEN 2 ELSE 1
    /\ m_started = FALSE
    /\ f_started = FALSE
    /\ f_pod_manager = FALSE
    /\ pod = [i \in Ids |-> "absent"]
    /\ svc = [i \in Ids |-> FALSE]
    /\ pc = "idle"
    /\ stack = <<>>
    /\ ret = NoRet
    /\ polls = 0
    /\ op = "none"
    /\ log = <<>>
    /\ pre = Snapshot
    /\ prev = [op |-> "none", kind |-> "none", val |-> "none"]
    /\ evictions = 0
    /\ timeout = 1
    /\ call = <<>>
    /\ rt = NoTrip
    /\ modules = NoAttr

\* ---------------------------------------------------------------- helpers
Go(p, s, r) == pc' = p /\ stack' = s /\ ret' = r

Propagate == pc' = pc /\ stack' = Tail(stack) /\ ret' = ret

Awaited(k) == pc = "resume" /\ stack # <<>> /\ Head(stack).k = k

managerVars == <<mode, session_id, nextId>>
facadeVars == <<f_started, f_pod_manager>>
callVars == <<op, pre, prev>>

\* ---------------------------------------------------------------- scheduler and endpoint answers
\* create_namespaced_pod: the name is free, or the scheduler refuses (409), or fails
CreatePodAnswers ==
    IF pod[session_id] = "absent" THEN {"ok", "error"} ELSE {"conflict", "error"}

\* read_namespaced_pod, as _is_pod_ready and the except clause see it
ReadPodAnswers ==
    IF pod[session_id] = "active" THEN {"ready", "not_ready", "error"}
    ELSE {"not_found", "error"}

CreateSvcAnswers ==
    IF svc[session_id] THEN {"conflict", "error"} ELSE {"ok", "error"}

DeleteSvcAnswers ==
    IF svc[session_id] THEN {"ok", "error"} ELSE {"not_found", "error"}

DeletePodAnswers ==
    IF pod[session_id] = "absent" THEN {"not_found", "error"} ELSE {"ok", "error"}

\* session.post(url, json=payload, timeout=timeout): the endpoint answers only
\* through an existing service in front of a live workload
PostAnswers ==
    IF pod[session_id] = "active" /\ svc[session_id]
    THEN {"ok_true", "ok_false", "non200", "timeout", "conn_error"}
    ELSE {"timeout", "conn_error"}

\* ---------------------------------------------------------------- PodSandboxManager
\* start_pod without its guard
StartIsNoopNever == FALSE

\* start_pod, line 36
StartIsNoop == m_started

\* stop_pod, line 77
StopIsNoop == ~m_started

\* execute_code without its guard
ExecRejectedNever == FALSE

\* execute_code, line 113
ExecRejected == ~m_started

\* a coroutine calls start_pod(): up to its first await
EnterStart(conts) ==
    IF StartIsNoop
    THEN Go("resume", conts, Return("already_running"))
    ELSE Go("create_pod", conts, NoRet)

\* stop_pod deleting the workload without deleting the service first
EnterStopPodFirst(conts) ==
    IF StopIsNoop
    THEN Go("resume", conts, Return("not_running"))
    ELSE Go("del_pod", conts, NoRet)

\* a coroutine calls stop_pod(): up to its first await
EnterStop(conts) ==
    IF StopIsNoop
    THEN Go("resume", conts, Return("not_running"))
    ELSE Go("del_svc", conts, NoRet)

\* restart_pod that creates the workload without stopping first
EnterRestartNoStop(conts) == Go("create_pod", conts, NoRet)

\* restart_pod that stops and never starts again
EnterRestartStopOnly(conts) == EnterStop(conts)

\* a coroutine calls restart_pod(): await self.stop_pod()
EnterRestart(conts) ==
    EnterStop(<<Cont("restart_after_stop", "none")>> \o conts)

\* a coroutine calls execute_code(): up to session.post
EnterExec(conts) ==
    IF ExecRejected
    THEN Go("resume", conts, Raise("pod_not_running"))
    ELSE Go("post", conts, NoRet)

\* start_pod: create_namespaced_pod answered
CreatePod ==
    /\ pc = "create_pod"
    /\ \E ans \in CreatePodAnswers :
        /\ log' = Append(log, Req("create_pod", ans))
        /\ IF ans = "ok"
           THEN /\ pod' = [pod EXCEPT ![session_id] = "active"]
                /\ Go("wait_ready", stack, NoRet)
           ELSE /\ pod' = pod
                /\ Go("resume", stack, Raise("pod_creation_failed"))
    /\ polls' = 0
    /\ UNCHANGED <<managerVars, facadeVars, callVars, m_started, svc, evictions, inPodVars>>

\* a readiness wait that starts over when its ceiling is reached
WaitForPodReadyRetries ==
    /\ pc = "wait_ready"
    /\ \E ans \in ReadPodAnswers :
        IF ans = "ready"
        THEN Go("create_svc", stack, NoRet) /\ polls' = 0
        ELSE Go("wait_ready", stack, NoRet) /\ polls' = (polls + 1) % ReadyTimeout
    /\ UNCHANGED <<managerVars, facadeVars, callVars, m_started, pod, svc, log, evictions, inPodVars>>

\* a readiness wait that gives up after its first poll
WaitForPodReadyOnce ==
    /\ pc = "wait_ready"
    /\ \E ans \in ReadPodAnswers :
        IF ans = "ready"
        THEN Go("create_svc", stack, NoRet) /\ polls' = 0
        ELSE Go("resume", stack, Raise("not_ready")) /\ polls' = 0
    /\ UNCHANGED <<managerVars, facadeVars, callVars, m_started, pod, svc, log, evictions, inPodVars>>

\* _wait_for_pod_ready: one iteration of the loop (read, test, sleep); polls is
\* the loop's local counter and is gone when the loop is left
WaitForPodReady ==
    /\ pc = "wait_ready"
    /\ \E ans \in ReadPodAnswers :
        IF ans = "ready"
        THEN Go("create_svc", stack, NoRet) /\ polls' = 0
        ELSE IF polls + 1 = ReadyTimeout
             THEN Go("resume", stack, Raise("not_ready")) /\ polls' = 0
             ELSE Go("wait_ready", stack, NoRet) /\ polls' = polls + 1
    /\ UNCHANGED <<managerVars, facadeVars, callVars, m_started, pod, svc, log, evictions, inPodVars>>

\* start_pod: create_namespaced_service answered
CreateService ==
    /\ pc = "create_svc"
    /\ \E ans \in CreateSvcAnswers :
        /\ log' = Append(log, Req("create_svc", ans))
        /\ IF ans = "ok"
           THEN /\ svc' = [svc EXCEPT ![session_id] = TRUE]
                /\ m_started' = TRUE
                /\ Go("resume", stack, Return("started"))
           ELSE /\ svc' = svc
                /\ m_started' = m_started
                /\ Go("resume", stack, Raise("pod_creation_failed"))
    /\ UNCHANGED <<managerVars, facadeVars, callVars, pod, polls, evictions, inPodVars>>

\* stop_pod: delete_namespaced_service answered; every answer goes on to the pod
DeleteService ==
    /\ pc = "del_svc"
    /\ \E ans \in DeleteSvcAnswers :
        /\ log' = Append(log, Req("del_svc", ans))
        /\ svc' = IF ans = "ok" THEN [svc EXCEPT ![session_id] = FALSE] ELSE svc
    /\ Go("del_pod", stack, NoRet)
    /\ UNCHANGED <<managerVars, facadeVars, callVars, m_started, pod, polls, evictions, inPodVars>>

\* a stop_pod that takes every answer to delete_namespaced_pod for a success
PodDeletedAnyAnswer(ans) == TRUE

\* stop_pod, lines 92-109: what follows the answer to delete_namespaced_pod
PodDeleted(ans) == ans = "ok"

\* stop_pod: delete_namespaced_pod answered
DeletePod ==
    /\ pc = "del_pod"
    /\ \E ans \in DeletePodAnswers :
        /\ log' = Append(log, Req("del_pod", ans))
        /\ pod' = IF ans = "ok" THEN [pod EXCEPT ![session_id] = "terminating"] ELSE pod
        /\ IF PodDeleted(ans)
           THEN m_started' = FALSE /\ Go("resume", stack, Return("stopped"))
           ELSE m_started' = m_started /\ Go("resume", stack, Raise("pod_deletion_failed"))
    /\ UNCHANGED <<managerVars, facadeVars, callVars, svc, polls, evictions, inPodVars>>

\* restart_pod, line 148: stop_pod has returned, await self.start_pod()
RestartAfterStop ==
    /\ Awaited("restart_after_stop")
    /\ IF ret.kind = "raise" THEN Propagate ELSE EnterStart(Tail(stack))
    /\ UNCHANGED <<managerVars, facadeVars, callVars, m_started, pod, svc, polls, log, evictions, inPodVars>>

\* execute_code restarting on an orderly failure too
ExecRestartsOnFailure(ans) == ans \in {"timeout", "ok_false"}

\* execute_code restarting after a successful answer too
ExecRestartsOnSuccess(ans) == ans \in {"timeout", "ok_true"}

\* execute_code restarting on every failure of the post, transport errors included
ExecRestartsOnTransport(ans) == ans \in {"timeout", "non200", "conn_error"}

\* execute_code, lines 135-139: which answers of the post make it restart
ExecRestartsOn(ans) == ans = "timeout"

\* execute_code: the post answered
Post ==
    /\ pc = "post"
    /\ \E ans \in PostAnswers :
        IF ExecRestartsOn(ans)
        THEN /\ log' = log \o <<Req("post", ans), Req("restart_pod", "manager")>>
             /\ EnterRestart(<<Cont("exec_after_restart", "none")>> \o stack)
        ELSE /\ log' = Append(log, Req("post", ans))
             /\ Go("resume", stack,
                   CASE ans = "ok_true" -> Return("success")
                     [] ans = "ok_false" -> Return("failure")
                     [] ans = "non200" -> Raise("http_error")
                     [] OTHER -> Raise(ans))
    /\ UNCHANGED <<managerVars, facadeVars, callVars, m_started, pod, svc, polls, evictions, inPodVars>>

\* an execute_code that raises its timeout error whatever restart_pod did
ExecAfterRestartMasks ==
    /\ Awaited("exec_after_restart")
    /\ Go("resume", Tail(stack), Raise("timed_out_restarted"))
    /\ UNCHANGED <<managerVars, facadeVars, callVars, m_started, pod, svc, polls, log, evictions, inPodVars>>

\* execute_code, line 139: restart_pod has returned
ExecAfterRestart ==
    /\ Awaited("exec_after_restart")
    /\ IF ret.kind = "raise"
       THEN Propagate
       ELSE Go("resume", Tail(stack), Raise("timed_out_restarted"))
    /\ UNCHANGED <<managerVars, facadeVars, callVars, m_started, pod, svc, polls, log, evictions, inPodVars>>

\* ---------------------------------------------------------------- PodSandbox
\* _exec_code, line 78
FacadeExecRejected == ~f_started \/ ~f_pod_manager

\* _exec_code handing every answer of the endpoint back as data
FacadeReturnsAnyAnswer(r) == r.kind = "return"

\* _exec_code, lines 97-106: the Manager's outcome that is handed back as {"result": ...};
\* every other outcome enters the except clause
FacadeReturns(r) == r.kind = "return" /\ r.val = "success"

\* the exception e the except clause of _exec_code handles
Caught(r) == IF r.kind = "return" THEN "failure" ELSE r.val

\* start, lines 53-56: start_pod has completed
FacadeStartWait ==
    /\ Awaited("f_start_wait")
    /\ IF ret.kind = "raise"
       THEN Propagate /\ f_started' = f_started
       ELSE Go("resume", Tail(stack), Return("None")) /\ f_started' = TRUE
    /\ UNCHANGED <<managerVars, callVars, f_pod_manager, m_started, pod, svc, polls, log,
                   evictions, inPodVars>>

\* stop, lines 70-74: stop_pod has completed
FacadeStopWait ==
    /\ Awaited("f_stop_wait")
    /\ IF ret.kind = "raise"
       THEN Propagate /\ UNCHANGED facadeVars
       ELSE /\ Go("resume", Tail(stack), Return("None"))
            /\ f_started' = FALSE
            /\ f_pod_manager' = FALSE
    /\ UNCHANGED <<managerVars, callVars, m_started, pod, svc, polls, log, evictions, inPodVars>>

\* an except clause that re-raises without restarting
FacadeNoRestart(e, conts) ==
    /\ log' = log
    /\ Go("resume", conts, RaiseFrom("code_execution_failed", e))
    /\ UNCHANGED <<session_id, nextId, m_started>>

\* a _restart_pod that provisions a new Manager (new session_id) instead of
\* restarting the one it holds
FacadeRestartFresh(e, conts) ==
    /\ nextId <= MaxSessions
    /\ session_id' = nextId
    /\ nextId' = nextId + 1
    /\ m_started' = FALSE
    /\ log' = Append(log, Req("restart_pod", "facade"))
    /\ Go("create_pod", <<Cont("f_exec_after_restart", e)>> \o conts, NoRet)

\* _restart_pod, lines 108-118, called by the except clause handling e: the
\* Manager the Facade holds is restarted, not replaced
FacadeRestartPod(e, conts) ==
    /\ IF f_pod_manager
       THEN /\ log' = Append(log, Req("restart_pod", "facade"))
            /\ EnterRestart(<<Cont("f_exec_after_restart", e)>> \o conts)
       ELSE /\ log' = log
            /\ Go("resume", conts, RaiseFrom("code_execution_failed", e))
    /\ UNCHANGED <<session_id, nextId, m_started>>

\* _exec_code, lines 93-106: execute_code has completed
FacadeExecWait ==
    /\ Awaited("f_exec_wait")
    /\ IF FacadeReturns(ret)
       THEN /\ Go("resume", Tail(stack), Return("result"))
            /\ UNCHANGED <<log, session_id, nextId, m_started>>
       ELSE FacadeRestartPod(Caught(ret), Tail(stack))
    /\ UNCHANGED <<mode, facadeVars, callVars, pod, svc, polls, evictions, inPodVars>>

\* _exec_code, lines 105-106: _restart_pod has completed
FacadeExecAfterRestart ==
    /\ Awaited("f_exec_after_restart")
    /\ IF ret.kind = "raise"
       THEN Propagate
       ELSE Go("resume", Tail(stack), RaiseFrom("code_execution_failed", Head(stack).e))
    /\ UNCHANGED <<managerVars, facadeVars, callVars, m_started, pod, svc, polls, log,
                   evictions, inPodVars>>

\* ---------------------------------------------------------------- the caller
Invoke(o) ==
    /\ Idle
    /\ op' = o
    /\ pre' = Snapshot
    /\ prev' = prev

\* await manager.start_pod()
CallStartPod ==
    /\ mode = "manager"
    /\ Invoke("start_pod")
    /\ EnterStart(<<>>)
    /\ log' = <<>>
    /\ UNCHANGED <<managerVars, facadeVars, m_started, pod, svc, polls, evictions, inPodVars>>

\* await manager.stop_pod()
CallStopPod ==
    /\ mode = "manager"
    /\ Invoke("stop_pod")
    /\ EnterStop(<<>>)
    /\ log' = <<>>
    /\ UNCHANGED <<managerVars, facadeVars, m_started, pod, svc, polls, evictions, inPodVars>>

\* await manager.restart_pod()
CallRestartPod ==
    /\ mode = "manager"
    /\ Invoke("restart_pod")
    /\ EnterRestart(<<>>)
    /\ log' = <<Req("restart_pod", "caller")>>
    /\ UNCHANGED <<managerVars, facadeVars, m_started, pod, svc, polls, evictions, inPodVars>>

\* await manager.execute_code(code)
CallExecuteCode ==
    /\ mode = "manager"
    /\ Invoke("execute_code")
    /\ EnterExec(<<>>)
    /\ log' = <<>>
    /\ UNCHANGED <<managerVars, facadeVars, m_started, pod, svc, polls, evictions, inPodVars>>

\* async with manager: __aenter__, line 301
CallAsyncWith ==
    /\ mode = "manager"
    /\ Invoke("async_with")
    /\ EnterStart(<<Cont("aenter_wait", "none")>>)
    /\ log' = <<>>
    /\ UNCHANGED <<managerVars, facadeVars, m_started, pod, svc, polls, evictions, inPodVars>>

\* how the body of the async with block ends
BodyOutcomes == {"return", "raise", "cancelled"}

\* __aenter__ has completed: when it raised, the block is not entered and
\* __aexit__ is not called; otherwise the body runs and __aexit__ (line 306)
\* calls stop_pod whatever the body's outcome b
AsyncWithBody ==
    /\ Awaited("aenter_wait")
    /\ IF ret.kind = "raise"
       THEN Propagate /\ log' = log
       ELSE \E b \in BodyOutcomes :
                /\ log' = Append(log, Req("body", b))
                /\ EnterStop(<<Cont("aexit_wait", b)>> \o Tail(stack))
    /\ UNCHANGED <<managerVars, facadeVars, callVars, m_started, pod, svc, polls, evictions, inPodVars>>

\* __aexit__ has completed: an error of stop_pod leaves the block; otherwise
\* __aexit__ returns None and the body's outcome leaves it
AsyncWithExit ==
    /\ Awaited("aexit_wait")
    /\ IF ret.kind = "raise"
       THEN Propagate
       ELSE Go("resume", Tail(stack),
               CASE Head(stack).e = "return" -> Return("None")
                 [] Head(stack).e = "raise" -> Raise("body_error")
                 [] OTHER -> Raise("cancelled"))
    /\ UNCHANGED <<managerVars, facadeVars, callVars, m_started, pod, svc, polls, log,
                   evictions, inPodVars>>

\* sandbox.start(), lines 31-53
FacadeStart ==
    /\ mode = "facade"
    /\ Invoke("start")
    /\ log' = <<>>
    /\ IF f_started
       THEN /\ Go("resume", <<>>, Return("None"))
            /\ UNCHANGED <<session_id, nextId, m_started, f_pod_manager>>
       ELSE /\ nextId <= MaxSessions
            /\ session_id' = nextId
            /\ nextId' = nextId + 1
            /\ m_started' = FALSE
            /\ f_pod_manager' = TRUE
            /\ Go("create_pod", <<Cont("f_start_wait", "none")>>, NoRet)
    /\ UNCHANGED <<mode, f_started, pod, svc, polls, evictions, inPodVars>>

\* sandbox.stop(), lines 58-70
FacadeStop ==
    /\ mode = "facade"
    /\ Invoke("stop")
    /\ log' = <<>>
    /\ IF f_started /\ f_pod_manager
       THEN EnterStop(<<Cont("f_stop_wait", "none")>>)
       ELSE Go("resume", <<>>, Return("None"))
    /\ UNCHANGED <<managerVars, facadeVars, m_started, pod, svc, polls, evictions, inPodVars>>

\* sandbox._exec_code(code, environment), lines 76-95
FacadeExecCode ==
    /\ mode = "facade"
    /\ Invoke("_exec_code")
    /\ log' = <<>>
    /\ IF FacadeExecRejected
       THEN Go("resume", <<>>, Raise("sandbox_not_started"))
       ELSE EnterExec(<<Cont("f_exec_wait", "none")>>)
    /\ UNCHANGED <<managerVars, facadeVars, m_started, pod, svc, polls, evictions, inPodVars>>

\* the caller has received the result or the exception of op
CallerContinues ==
    /\ Done
    /\ prev' = [op |-> op, kind |-> ret.kind, val |-> ret.val]
    /\ op' = "none"
    /\ log' = <<>>
    /\ pre' = Snapshot
    /\ Go("idle", <<>>, NoRet)
    /\ UNCHANGED <<managerVars, facadeVars, m_started, pod, svc, polls, evictions, inPodVars>>

\* ---------------------------------------------------------------- the scheduler on its own
\* a workload whose deletion was accepted is finally gone
PodGone ==
    /\ \E i \in Ids :
        /\ pod[i] = "terminating"
        /\ pod' = [pod EXCEPT ![i] = "absent"]
    /\ UNCHANGED <<managerVars, facadeVars, callVars, m_started, svc, pc, stack, ret, polls,
                   log, evictions, inPodVars>>

\* between two operations of the caller, the scheduler (eviction, an operator's
\* kubectl delete) removes a workload or a service
Evict ==
    /\ Idle
    /\ evictions < MaxEvictions
    /\ evictions' = evictions + 1
    /\ \E i \in Ids :
        \/ pod[i] = "active" /\ pod' = [pod EXCEPT ![i] = "absent"] /\ svc' = svc
        \/ svc[i] /\ svc' = [svc EXCEPT ![i] = FALSE] /\ pod' = pod
    /\ UNCHANGED <<managerVars, facadeVars, callVars, m_started, pc, stack, ret, polls, log,
                   inPodVars>>

\* ---------------------------------------------------------------- reading the log
Has(r, a) == \E i \in DOMAIN log : log[i] = Req(r, a)

Count(r, a) == Cardinality({i \in DOMAIN log : log[i] = Req(r, a)})

Requests(r) == Cardinality({i \in DOMAIN log : log[i].req = r})

SchedulerRequests == {"create_pod", "create_svc", "del_svc", "del_pod"}

NoSchedulerRequest == \A i \in DOMAIN log : log[i].req \notin SchedulerRequests

TimedOut == Has("post", "timeout")

\* what restart_pod can raise: stop_pod's and start_pod's errors
RestartErrors == {"pod_deletion_failed", "pod_creation_failed", "not_ready"}

StopOps == {"stop_pod", "stop"}

\* the session answers the next execute: flags set, workload and service in place
Usable ==
    /\ m_started
    /\ pod[session_id] = "active"
    /\ svc[session_id]
    /\ ~ExecRejected
    /\ mode = "facade" => ~FacadeExecRejected

\* the log holds, from position n on, one complete restart of a started session:
\* the call, the service delete, the pod delete, the pod and service creation
RestartAt(n) ==
    /\ Len(log) >= n + 4
    /\ log[n].req = "restart_pod"
    /\ log[n + 1].req = "del_svc"
    /\ log[n + 2] = Req("del_pod", "ok")
    /\ log[n + 3] = Req("create_pod", "ok")
    /\ log[n + 4] = Req("create_svc", "ok")

\* ---------------------------------------------------------------- inside the workload
\* A session that start_pod has brought up, seen from execute_code down to the
\* endpoint's handler and its executor.  Time is a clock of ticks; an answer
\* travels within a tick.  restart_pod is taken as one step that succeeds: it
\* replaces the workload, which ends every worker and breaks every connection.
StartedSession(m) ==
    /\ mode = m
    /\ session_id = 1
    /\ nextId = 2
    /\ m_started = TRUE
    /\ f_started = (m = "facade")
    /\ f_pod_manager = (m = "facade")
    /\ pod = [i \in Ids |-> IF i = 1 THEN "active" ELSE "absent"]
    /\ svc = [i \in Ids |-> i = 1]
    /\ pc = "idle"
    /\ stack = <<>>
    /\ ret = NoRet
    /\ polls = 0
    /\ op = "none"
    /\ log = <<>>
    /\ pre = Snapshot
    /\ prev = [op |-> "start_pod", kind |-> "return", val |-> "started"]
    /\ evictions = 0

EInit ==
    /\ StartedSession("manager")
    /\ timeout \in Timeouts
    /\ call = [c \in Calls |-> IdleCall]
    /\ rt = NoTrip
    /\ modules = NoAttr

\* session.post(url, json=payload, timeout=timeout)
NetworkTimeout(t) == t

\* payload "timeout": timeout; asyncio.wait_for(..., timeout=request.timeout)
EndpointTimeout(t) == t

InFlight == {c \in Calls : call[c].pc = "post"}

Working(c) == call[c].worker = "running" /\ call[c].code.kind # "loop"

\* execute_code up to the post, and the handler up to its await: the request is
\* accepted, a fresh exec_locals is made and the code is handed to the executor.
\* A call is followed in the first slot that is free: no call in flight in it,
\* and its earlier worker ended.
Free(c) == call[c].pc # "post" /\ call[c].worker # "running"

Submit(c, p) ==
    /\ Free(c)
    /\ \A d \in 1..(c - 1) : ~Free(d)
    /\ ~ExecRejected
    /\ call' = [call EXCEPT ![c] = [pc |-> "post", code |-> p, age |-> 0,
                                    worker |-> "running", left |-> p.dur,
                                    locals |-> EmptyLocals, exc |-> NoExc,
                                    resp |-> NoWire, out |-> NoOut]]
    /\ UNCHANGED <<sessionVars, timeout, rt, modules>>

PostExecute(c) == \E p \in Programs(timeout) : Submit(c, p)

\* the worker thread: exec(...) returns or raises; what it did to the modules
\* stays in the process
WorkerEnds(c) ==
    /\ Working(c)
    /\ call[c].left = 0
    /\ LET ran == Run(call[c].code, call[c].locals, modules) IN
        /\ call' = [call EXCEPT ![c].worker = IF ran.exc # NoExc THEN "raised"
                                              ELSE "finished",
                                ![c].locals = ran.locals,
                                ![c].exc = ran.exc]
        /\ modules' = ran.modules
    /\ UNCHANGED <<sessionVars, timeout, rt>>

\* the handler after its await: the success answer, or the failure answer of the
\* except clause that catches what the worker raised
EndpointAnswers(c) ==
    /\ call[c].pc = "post"
    /\ call[c].resp = NoWire
    /\ call[c].worker \in {"finished", "raised"}
    /\ call' = [call EXCEPT ![c].resp =
                   Wire(IF call[c].worker = "finished" THEN Success(call[c].locals)
                        ELSE Raised(call[c].exc, timeout))]
    /\ UNCHANGED <<sessionVars, timeout, rt, modules>>

\* a handler that answers the timeout only once the code has ended
EndpointDeadlineWaits(c) ==
    /\ call[c].pc = "post"
    /\ call[c].resp = NoWire
    /\ call[c].worker \in {"finished", "raised"}
    /\ call[c].age >= EndpointTimeout(timeout)
    /\ call' = [call EXCEPT ![c].resp = Wire(Failure(TimeoutMessage(timeout)))]
    /\ UNCHANGED <<sessionVars, timeout, rt, modules>>

\* a handler whose timeout ends the worker
EndpointDeadlineCancels(c) ==
    /\ call[c].pc = "post"
    /\ call[c].resp = NoWire
    /\ call[c].worker # "none"
    /\ call[c].age >= EndpointTimeout(timeout)
    /\ call' = [call EXCEPT ![c].resp = Wire(Failure(TimeoutMessage(timeout))),
                            ![c].worker = "none"]
    /\ UNCHANGED <<sessionVars, timeout, rt, modules>>

\* wait_for's timer: the handler answers with the timeout failure; the worker is
\* left as it is
EndpointDeadline(c) ==
    /\ call[c].pc = "post"
    /\ call[c].resp = NoWire
    /\ call[c].worker # "none"
    /\ call[c].age >= EndpointTimeout(timeout)
    /\ call' = [call EXCEPT ![c].resp = Wire(Failure(TimeoutMessage(timeout)))]
    /\ UNCHANGED <<sessionVars, timeout, rt, modules>>

\* response.status == 200: return await response.json()
ManagerReceives(c) ==
    /\ call[c].pc = "post"
    /\ call[c].resp # NoWire
    /\ call' = [call EXCEPT ![c].pc = "done",
                            ![c].out = Outcome("return", Body(call[c].resp), "")]
    /\ UNCHANGED <<sessionVars, timeout, rt, modules>>

\* the post's own timer: except asyncio.TimeoutError, restart_pod, raise
ManagerTimeout(c) ==
    /\ call[c].pc = "post"
    /\ call[c].age >= NetworkTimeout(timeout)
    /\ call' = [d \in Calls |->
                  IF d = c
                  THEN [call[d] EXCEPT !.pc = "done", !.worker = "none", !.left = 0,
                                       !.out = Outcome("raise", Body(NoWire),
                                                   "Code execution timed out, pod restarted")]
                  ELSE IF call[d].pc = "post"
                  THEN [call[d] EXCEPT !.pc = "done", !.worker = "none", !.left = 0,
                                       !.out = Outcome("raise", Body(NoWire),
                                                       "ServerDisconnectedError")]
                  ELSE [call[d] EXCEPT !.worker = "none", !.left = 0]]
    /\ modules' = NoAttr
    /\ UNCHANGED <<sessionVars, timeout, rt>>

\* time passes, unless something is due now: a timer, an answer, a worker's end
Tick ==
    /\ \A c \in InFlight :
        /\ call[c].age < NetworkTimeout(timeout)
        /\ call[c].resp = NoWire
        /\ call[c].worker \notin {"finished", "raised"}
        /\ call[c].worker # "none" => call[c].age < EndpointTimeout(timeout)
    /\ \A c \in Calls : Working(c) => call[c].left > 0
    /\ \E c \in Calls : c \in InFlight \/ Working(c)
    /\ call' = [c \in Calls |->
                  [call[c] EXCEPT !.age = IF c \in InFlight THEN @ + 1 ELSE @,
                                  !.left = IF Working(c) THEN @ - 1 ELSE @]]
    /\ UNCHANGED <<sessionVars, timeout, rt, modules>>

ENext ==
    \/ \E c \in Calls :
        \/ PostExecute(c) \/ WorkerEnds(c) \/ EndpointAnswers(c) \/ EndpointDeadline(c)
        \/ ManagerReceives(c) \/ ManagerTimeout(c)
    \/ Tick

SpecEndpoint == EInit /\ [][ENext]_vars

\* ---------------------------------------------------------------- what requests leave
\* the same endpoint and Manager, its callers submitting the code that binds and
\* reads a name and sets and reads a module's attribute
PostNamespace(c) == \E p \in NamespacePrograms : Submit(c, p)

NNext ==
    \/ \E c \in Calls :
        \/ PostNamespace(c) \/ WorkerEnds(c) \/ EndpointAnswers(c) \/ EndpointDeadline(c)
        \/ ManagerReceives(c) \/ ManagerTimeout(c)
    \/ Tick

SpecNamespace == EInit /\ [][NNext]_vars

\* ---------------------------------------------------------------- one value's way
\* the code "result = v" for a literal v, or code binding no result, through exec,
\* the handler's answer, the Manager's return value and the Facade's result
RInit ==
    /\ StartedSession("facade")
    /\ timeout = 1
    /\ call = [c \in Calls |-> IdleCall]
    /\ modules = NoAttr
    /\ \E p \in {Assign(v, 0) : v \in Literals} \cup {NoResult} :
        rt = Trip("submitted", p, EmptyLocals, NoWire, Body(NoWire), FacadeResult(Body(NoWire)))

TripExec ==
    /\ rt.stage = "submitted"
    /\ rt' = [rt EXCEPT !.stage = "executed", !.locals = Exec(rt.code)]
    /\ UNCHANGED <<sessionVars, timeout, call, modules>>

TripAnswer ==
    /\ rt.stage = "executed"
    /\ rt' = [rt EXCEPT !.stage = "answered", !.resp = Wire(Success(rt.locals))]
    /\ UNCHANGED <<sessionVars, timeout, call, modules>>

TripReturn ==
    /\ rt.stage = "answered"
    /\ rt.resp.status = 200
    /\ rt' = [rt EXCEPT !.stage = "returned", !.body = Body(rt.resp)]
    /\ UNCHANGED <<sessionVars, timeout, call, modules>>

TripFacade ==
    /\ rt.stage = "returned"
    /\ ~FacadeExecRejected
    /\ rt.body.success
    /\ rt' = [rt EXCEPT !.stage = "result", !.out = FacadeResult(rt.body)]
    /\ UNCHANGED <<sessionVars, timeout, call, modules>>

RNext == TripExec \/ TripAnswer \/ TripReturn \/ TripFacade

SpecRoundTrip == RInit /\ [][RNext]_vars

Next ==
    \/ CallStartPod \/ CallStopPod \/ CallRestartPod \/ CallExecuteCode
    \/ CallAsyncWith \/ AsyncWithBody \/ AsyncWithExit
    \/ CreatePod \/ WaitForPodReady \/ CreateService
    \/ DeleteService \/ DeletePod
    \/ RestartAfterStop \/ Post \/ ExecAfterRestart
    \/ FacadeStart \/ FacadeStop \/ FacadeExecCode
    \/ FacadeStartWait \/ FacadeStopWait \/ FacadeExecWait \/ FacadeExecAfterRestart
    \/ CallerContinues
    \/ PodGone \/ Evict

Spec == Init /\ [][Next]_vars

\* ---------------------------------------------------------------- execute_code to its end
\* A started Manager whose caller only executes.  The event loop runs a
\* coroutine whose awaited request has returned, and every scheduler request
\* and every post returns (the post at the latest by its timeout): weak fairness
\* of the coroutine's steps.
\* ---------------------------------------------------------------- the Manager alone
\* a caller that holds a PodSandboxManager and invokes its operations directly
MInit == Init /\ mode = "manager"

MNext ==
    \/ CallStartPod \/ CallStopPod \/ CallRestartPod \/ CallExecuteCode
    \/ CallAsyncWith \/ AsyncWithBody \/ AsyncWithExit
    \/ CreatePod \/ WaitForPodReady \/ CreateService
    \/ DeleteService \/ DeletePod
    \/ RestartAfterStop \/ Post \/ ExecAfterRestart
    \/ CallerContinues
    \/ PodGone \/ Evict

SpecManager == MInit /\ [][MNext]_vars

\* ---------------------------------------------------------------- execute_code alone
XInit ==
    /\ StartedSession("manager")
    /\ timeout = 1
    /\ call = <<>>
    /\ rt = NoTrip
    /\ modules = NoAttr

ExecSteps ==
    \/ Post \/ DeleteService \/ DeletePod \/ RestartAfterStop
    \/ CreatePod \/ WaitForPodReady \/ CreateService \/ ExecAfterRestart

XNext == CallExecuteCode \/ ExecSteps \/ CallerContinues \/ PodGone

SpecExecute == XInit /\ [][XNext]_vars /\ WF_vars(ExecSteps)

\* ================================================================ claims

\* the last two requests of the log are the creations of a successful start_pod
StartedLast ==
    /\ Len(log) >= 2
    /\ log[Len(log) - 1] = Req("create_pod", "ok")
    /\ log[Len(log)] = Req("create_svc", "ok")

\* C1: an execute request is in flight to the Execution Endpoint only while the
\* session is started; Manager.execute_code on a session that is not started
\* raises 'Pod is not running' with no request issued, and Facade._exec_code
\* on a Facade that is not started raises without calling the Manager.
C1_ExecuteOnlyWhileStarted ==
    /\ pc = "post" => m_started
    /\ (pc = "post" /\ mode = "facade") => (f_started /\ f_pod_manager)
    /\ (Done /\ op = "execute_code" /\ ~pre.m_started) =>
            (ret = Raise("pod_not_running") /\ log = <<>>)
    /\ (Done /\ op = "_exec_code" /\ ~(pre.f_started /\ pre.f_pod_manager)) =>
            (ret = Raise("sandbox_not_started") /\ log = <<>>)

\* an execute issued right after a completed stop is refused
C1_Witness ==
    /\ Done /\ op = "execute_code"
    /\ prev = [op |-> "stop_pod", kind |-> "return", val |-> "stopped"]
    /\ ret = Raise("pod_not_running")

\* C2 as stated: whenever an execute call met a timeout and an exception reaches
\* the caller, the session is usable (started, workload and service in place,
\* next execute accepted), for Manager.execute_code and Facade._exec_code.
C2_UsableAfterAnyTimeout ==
    (Done /\ op \in {"execute_code", "_exec_code"} /\ TimedOut /\ ret.kind = "raise")
        => Usable

\* C2 amended: when the exception that reaches the caller of a timed-out
\* execute is the Manager's timeout error ('Code execution timed out, pod
\* restarted') or the Facade's 'Code execution failed' error, the restart (stop,
\* then start) has been performed and the session is usable; otherwise the
\* caller receives the error of the restart that failed.
C2_UsableAfterTimeoutError ==
    /\ (Done /\ op = "execute_code" /\ ret = Raise("timed_out_restarted")) =>
            (TimedOut /\ RestartAt(2) /\ Usable)
    /\ (Done /\ op = "_exec_code" /\ TimedOut /\ ret.val = "code_execution_failed") =>
            (Count("restart_pod", "facade") = 1 /\ StartedLast /\ Usable)
    /\ (Done /\ op = "_exec_code"
             /\ ret = RaiseFrom("code_execution_failed", "timed_out_restarted")) =>
            (TimedOut /\ RestartAt(2) /\ RestartAt(7))
    /\ (Done /\ op = "execute_code" /\ TimedOut) =>
            \/ ret = Raise("timed_out_restarted")
            \/ ret.kind = "raise" /\ ret.val \in RestartErrors
    /\ (Done /\ op = "_exec_code" /\ TimedOut) =>
            \/ ret.kind = "raise" /\ ret.val = "code_execution_failed"
                    /\ ret.cause \in {"timed_out_restarted"} \cup RestartErrors
            \/ ret.kind = "raise" /\ ret.val \in RestartErrors

\* the Facade's caller receives the timeout error
C2_Witness ==
    /\ Done /\ op = "_exec_code"
    /\ ret = RaiseFrom("code_execution_failed", "timed_out_restarted")

\* C3 as stated: after an execute on a Facade raised on a timeout, the session
\* the next execute runs against has another session_id (hence other workload
\* and service names) than the session that timed out.
C3_FreshNamesAfterTimeout ==
    (Done /\ op = "_exec_code"
          /\ ret = RaiseFrom("code_execution_failed", "timed_out_restarted"))
        => session_id # pre.session_id

\* C3 amended: after an execute on a Facade raised on a timeout, the Facade
\* holds the same Manager: session_id, workload name and service name are those
\* of the session that timed out, and when the timeout error is what was raised
\* the workload and the service have been re-created under these names.
C3_SameNamesAfterTimeout ==
    /\ (Done /\ op = "_exec_code" /\ TimedOut) =>
            (ret.kind = "raise" /\ f_pod_manager /\ session_id = pre.session_id)
    /\ (Done /\ op = "_exec_code"
             /\ ret = RaiseFrom("code_execution_failed", "timed_out_restarted")) =>
            (pod[pre.session_id] = "active" /\ svc[pre.session_id]
             /\ Count("create_pod", "ok") = 2)

\* a timeout followed by two complete restarts of the session that timed out
C3_Witness ==
    /\ Done /\ op = "_exec_code" /\ TimedOut
    /\ ret = RaiseFrom("code_execution_failed", "timed_out_restarted")
    /\ session_id = pre.session_id /\ pre.m_started

\* C4: when the endpoint answers 200 with success=false, Manager.execute_code
\* returns that failure, raises nothing, calls neither restart nor stop, and the
\* session is still started.
C4_OrderlyFailureReturned ==
    (Done /\ op = "execute_code" /\ Has("post", "ok_false")) =>
        /\ ret = Return("failure")
        /\ log = <<Req("post", "ok_false")>>
        /\ m_started
        /\ pod = pre.pod /\ svc = pre.svc

C4_Witness ==
    /\ Done /\ op = "execute_code"
    /\ ret = Return("failure") /\ Has("post", "ok_false") /\ m_started

\* C5 as stated: when the endpoint answers success=false to code submitted
\* through the Facade, no exception reaches the caller and the workload is
\* neither stopped nor restarted nor re-provisioned.
C5_FacadeReturnsFailureAsData ==
    (Done /\ op = "_exec_code" /\ Has("post", "ok_false")) =>
        (ret.kind = "return" /\ log = <<Req("post", "ok_false")>>)

\* C5 amended: when the endpoint answers success=false, the Manager returns the
\* failure as data without restarting, but the Facade turns it into an
\* exception: it calls Manager.restart_pod once (stop, then start, under the
\* same names) and raises 'Code execution failed: <error>' to the caller, or the
\* restart's own error when the restart fails.
C5_FacadeRaisesAfterRestart ==
    (Done /\ op = "_exec_code" /\ Has("post", "ok_false")) =>
        /\ Len(log) >= 3
        /\ log[1] = Req("post", "ok_false")
        /\ log[2] = Req("restart_pod", "facade")
        /\ log[3].req = "del_svc"
        /\ Requests("restart_pod") = 1
        /\ Requests("post") = 1
        /\ \/ ret = RaiseFrom("code_execution_failed", "failure") /\ RestartAt(2) /\ Usable
           \/ ret.kind = "raise" /\ ret.val \in RestartErrors

C5_Witness ==
    /\ Done /\ op = "_exec_code" /\ Has("post", "ok_false")
    /\ ret = RaiseFrom("code_execution_failed", "failure")

\* Manager.execute_code was called by the Facade and raised
ManagerExecFailed ==
    /\ op = "_exec_code"
    /\ pre.f_started /\ pre.f_pod_manager
    /\ ~Has("post", "ok_true") /\ ~Has("post", "ok_false")

C7_StopIdempotent ==
    (Done /\ op \in StopOps /\ prev.op = op) =>
        /\ prev.kind = "return"
        /\ ret.kind = "return"
        /\ log = <<>>
        /\ m_started = pre.m_started
        /\ f_started = pre.f_started
        /\ f_pod_manager = pre.f_pod_manager
        /\ session_id = pre.session_id

\* C8: during stop(), a 404 answer to the service delete or to the workload
\* delete counts as success: stop() does not raise and the session ends up not
\* started.
C8_NotFoundIsSuccess ==
    (Done /\ op \in StopOps
          /\ (Has("del_svc", "not_found") \/ Has("del_pod", "not_found"))
          /\ ~Has("del_svc", "error") /\ ~Has("del_pod", "error")) =>
        (ret.kind = "return" /\ ~m_started)

\* C9: a scheduler error other than 'not found' on the service delete or on the
\* workload delete does not keep the session from being marked stopped.
C9_ErrorStillStops ==
    (Done /\ op \in StopOps
          /\ (Has("del_svc", "error") \/ Has("del_pod", "error"))
          /\ ~Has("del_svc", "not_found") /\ ~Has("del_pod", "not_found")) =>
        ~m_started

\* C10: whenever no lifecycle operation is in progress, the workload and the
\* service of a session exist in the scheduler if and only if that session is
\* marked started (stated for the runs in which the scheduler removes nothing
\* on its own; a workload whose deletion was accepted counts as gone).
C10_ResourcesIffStarted ==
    ((Idle \/ Done) /\ evictions = 0) =>
        \A i \in Ids :
            /\ (i = session_id /\ m_started) => (pod[i] = "active" /\ svc[i])
            /\ (pod[i] = "active" \/ svc[i]) => (i = session_id /\ m_started)

\* C11: start() on a started session is a no-op: Manager.start_pod issues no
\* request, changes no field and returns the existing session's info
\* ('already_running', same pod name); Facade.start on a started Facade
\* constructs no Manager and starts no session.
C11_StartIdempotent ==
    /\ (Done /\ op = "start_pod" /\ pre.m_started) =>
            /\ ret = Return("already_running")
            /\ log = <<>>
            /\ m_started /\ session_id = pre.session_id
    /\ (Done /\ op = "start" /\ pre.f_started) =>
            /\ ret = Return("None")
            /\ log = <<>>
            /\ f_started /\ f_pod_manager = pre.f_pod_manager
            /\ session_id = pre.session_id /\ m_started = pre.m_started

\* start_pod called right after a start_pod that succeeded
C11_Witness ==
    /\ Done /\ op = "start_pod" /\ pre.m_started
    /\ prev = [op |-> "start_pod", kind |-> "return", val |-> "started"]
    /\ ret = Return("already_running")

\* C12: in every stop (the one inside restart included) the service delete has
\* been issued and has returned before the workload delete is issued.
C12_ServiceBeforeWorkload ==
    /\ \A i \in DOMAIN log :
            log[i].req = "del_pod" => (i > 1 /\ log[i - 1].req = "del_svc")
    /\ pc = "del_pod" => (log # <<>> /\ log[Len(log)].req = "del_svc")

\* a restart whose stop phase has deleted the service and then the workload
C12_Witness ==
    /\ Has("restart_pod", "manager")
    /\ Has("del_svc", "ok")
    /\ Has("del_pod", "ok")

\* C13: an execute that succeeds issues no creation (and no deletion) request:
\* for a session started once, sequential successful executes leave the number
\* of workloads provisioned at one.
C13_SuccessProvisionsNothing ==
    (Done /\ op \in {"execute_code", "_exec_code"} /\ Has("post", "ok_true")) =>
        /\ log = <<Req("post", "ok_true")>>
        /\ ret.kind = "return"
        /\ m_started /\ session_id = pre.session_id
        /\ pod[session_id] = "active" /\ svc[session_id]

\* the second of two successful executes in a row
C13_Witness ==
    /\ Done /\ op = "_exec_code"
    /\ prev = [op |-> "_exec_code", kind |-> "return", val |-> "result"]
    /\ ret = Return("result")
    /\ log = <<Req("post", "ok_true")>>

\* C17 as stated: when the post of Manager.execute_code fails with a deadline
\* exceeded or with a transport error (connection failure, non-200 answer), the
\* Manager calls restart_pod before raising.
C17_RestartOnTimeoutOrTransport ==
    (Done /\ op = "execute_code"
          /\ (Has("post", "timeout") \/ Has("post", "conn_error") \/ Has("post", "non200"))) =>
        (ret.kind = "raise" /\ Has("restart_pod", "manager"))

\* C17 amended: the Manager calls restart_pod before raising only when the post
\* fails with a deadline exceeded (asyncio.TimeoutError); on a transport error
\* (connection failure or non-200 answer) it re-raises the error without
\* restarting and the session stays as it was.
C17_RestartOnTimeoutOnly ==
    /\ (Done /\ op = "execute_code" /\ Has("post", "timeout")) =>
            /\ Len(log) >= 3
            /\ log[1] = Req("post", "timeout")
            /\ log[2] = Req("restart_pod", "manager")
            /\ log[3].req = "del_svc"
            /\ ret.kind = "raise"
    /\ (Done /\ op = "execute_code"
             /\ (Has("post", "conn_error") \/ Has("post", "non200"))) =>
            /\ Len(log) = 1
            /\ ret \in {Raise("conn_error"), Raise("http_error")}
            /\ m_started

\* a connection failure is re-raised with no restart
C17_Witness ==
    /\ Done /\ op = "execute_code"
    /\ log = <<Req("post", "conn_error")>>
    /\ ret = Raise("conn_error")

\* C15: when start() fails because the workload did not become ready within
\* the readiness ceiling, the workload it created is left in the scheduler, and
\* the caller's next stop() (Manager.stop_pod, Facade.stop) deletes it.
C15_StopCleansFailedStart ==
    /\ (Done /\ op \in {"start_pod", "start"} /\ ret = Raise("not_ready")) =>
            pod[session_id] = "active"
    /\ (Done /\ op \in StopOps
             /\ prev.op \in {"start_pod", "start"} /\ prev.val = "not_ready"
             /\ pre.pod[pre.session_id] = "active") =>
            (Has("del_pod", "ok") /\ pod[pre.session_id] # "active")

\* C16: in a scoped use (async with) the body runs only after start_pod has
\* completed, stop_pod runs on every way out of the scope (return, exception
\* or cancellation in the body, failure of start_pod while entering), and no
\* workload of the session remains once the scope has been left.
C16_ScopeLeavesNothing ==
    /\ Requests("body") > 0 => (pre.m_started \/ Has("create_svc", "ok"))
    /\ (Done /\ op = "async_with" /\ (Has("create_pod", "ok") \/ pre.m_started)) =>
            /\ Requests("del_pod") > 0
            /\ pod[session_id] # "active"
            /\ ~m_started

\* C14: at most one execution request is in flight per session: of two execute
\* calls issued concurrently on one Manager the second waits or is rejected until
\* the first has completed.  (SpecEndpoint)
C14_OneInFlight ==
    Cardinality(InFlight) <= 1

\* a call of execute_code ended by the Manager's own timer
TimedOutAtManager(c) ==
    /\ call[c].pc = "done"
    /\ call[c].out.kind = "raise"
    /\ call[c].out.err = "Code execution timed out, pod restarted"

\* C18: code whose execution raises is answered with a structured failure, not
\* an HTTP error: success false, result absent, error the non-empty string
\* "<ExceptionType>: <message>".  (SpecEndpoint)
C18_RaisedIsTypeAndMessage ==
    \A c \in Calls :
        (call[c].code.kind = "raise" /\ call[c].resp # NoWire) =>
            /\ call[c].resp.status = 200
            /\ ~call[c].resp.success
            /\ Body(call[c].resp).result = PyNone
            /\ Body(call[c].resp).error =
                   PyStr(call[c].code.exc.type \o ": " \o call[c].code.exc.msg)
            /\ Body(call[c].resp).error # PyStr("")

\* C19 as stated: code assigning a literal v to result yields success with result
\* equal to v unmodified, at the endpoint and as {'result': v} through the Facade;
\* code binding no result yields the placeholder.  (SpecRoundTrip)
C19_RoundTripUnmodified ==
    /\ (rt.stage \in {"returned", "result"} /\ rt.code.kind = "assign") =>
           rt.body.success /\ rt.body.result = rt.code.value
    /\ (rt.stage = "result" /\ rt.code.kind = "assign") => rt.out = [result |-> rt.code.value]
    /\ (rt.stage \in {"returned", "result"} /\ rt.code.kind = "pass") =>
           rt.body.success /\ rt.body.result = Placeholder

\* a literal as it reads after the answer's JSON: a tuple is a list, a key a string
ReadBack(v) ==
    IF JsonNative(v) THEN v
    ELSE Container(IF v.t = "tuple" THEN "list" ELSE v.t,
                   [i \in DOMAIN v.items |->
                      Entry(IF v.items[i].kt = "" THEN "" ELSE "str",
                            IF v.items[i].kt \in {"", "str"} THEN v.items[i].k
                            ELSE JsonName(v.items[i].kt, v.items[i].k),
                            v.items[i].t, v.items[i].a)])

\* C19 (amended): the answer is a 200 with success true; the result is v itself
\* when v is None, a boolean, a number, a string, or a list or string-keyed dict of
\* these, and otherwise v read back from JSON (a tuple as a list, a key as a
\* string); the Facade returns it as {'result': ...}; code binding no result
\* yields the placeholder.  (SpecRoundTrip)
C19_RoundTripThroughJson ==
    /\ rt.stage \in {"answered", "returned", "result"} =>
           rt.resp.status = 200 /\ rt.resp.success
    /\ (rt.stage \in {"returned", "result"} /\ rt.code.kind = "assign") =>
           /\ rt.body.success
           /\ rt.body.error = PyNone
           /\ rt.body.result = ReadBack(rt.code.value)
           /\ JsonNative(rt.code.value) => rt.body.result = rt.code.value
    /\ (rt.stage \in {"returned", "result"} /\ rt.code.kind = "pass") =>
           rt.body.success /\ rt.body.result = PyStr("Code executed successfully")
    /\ rt.stage = "result" => rt.out = [result |-> rt.body.result]

\* the Facade has returned a two-entry dict with string keys, unchanged
C19_Witness ==
    /\ rt.stage = "result"
    /\ rt.code.kind = "assign"
    /\ rt.code.value.t = "dict"
    /\ Len(rt.code.value.items) = 2
    /\ JsonNative(rt.code.value)
    /\ rt.out.result = rt.code.value

\* C20: the Manager's network timeout is strictly greater than the endpoint's
\* deadline for the same request, so no call is ended by the Manager's own timer
\* while the endpoint's deadline has not passed.  (SpecEndpoint)
C20_ManagerOutlastsEndpoint ==
    \A c \in Calls :
        TimedOutAtManager(c) =>
            /\ NetworkTimeout(timeout) > EndpointTimeout(timeout)
            /\ call[c].age > EndpointTimeout(timeout)

\* C21: if the workload never reports Ready, the readiness wait of start()
\* performs at most 60 polls (a read error counts as not ready) and then start()
\* raises, without creating the service and without marking the session
\* started: the wait's counter goes up by one per poll and stays below 60, and
\* the wait ends in an error exactly on the 60th poll, with no request issued.
C21_ReadinessCeiling ==
    [][/\ (pc = "wait_ready" /\ polls' # polls) =>
              \/ polls' = polls + 1 /\ polls' < ReadyTimeout /\ pc' = "wait_ready"
              \/ polls' = 0 /\ pc' \in {"create_svc", "resume"}
       /\ (pc = "wait_ready" /\ pc' = "resume") =>
              /\ polls + 1 = 60
              /\ ret' = Raise("not_ready")
              /\ ~m_started'
              /\ svc' = svc
              /\ log' = log
              /\ log # <<>>
              /\ log[Len(log)] = Req("create_pod", "ok")]_vars

\* start_pod has raised after the readiness wait, the workload created and
\* nothing else
C21_Witness ==
    /\ Done /\ op = "start_pod"
    /\ ret = Raise("not_ready")
    /\ log = <<Req("create_pod", "ok")>>
    /\ ~m_started /\ ~svc[session_id]

\* the session is marked started when the request at position i of the log is issued
StartedBefore(i) ==
    LET marks == {j \in 1..(i - 1) : log[j] \in {Req("del_pod", "ok"), Req("create_svc", "ok")}}
    IN  IF marks = {} THEN pre.m_started
        ELSE log[CHOOSE k \in marks : \A j \in marks : j <= k] = Req("create_svc", "ok")

\* C22: restart() is a strict sequence: the workload creation of its start phase
\* is issued only after the service delete and the workload delete of its stop
\* phase have returned (or directly, when the session is not started and stop
\* has nothing to do); while a delete is pending no creation has been issued.
C22_StopThenStart ==
    /\ \A i \in DOMAIN log :
        (i > 1 /\ log[i].req = "create_pod" /\ \E j \in 1..(i - 1) : log[j].req = "restart_pod") =>
            \/ /\ i >= 3
               /\ log[i - 1] = Req("del_pod", "ok")
               /\ log[i - 2].req = "del_svc"
            \/ log[i - 1].req = "restart_pod" /\ ~StartedBefore(i)
    /\ \A i \in DOMAIN log :
        (log[i].req = "restart_pod" /\ StartedBefore(i) /\ Len(log) > i) =>
            log[i + 1].req = "del_svc"
    /\ pc = "del_pod" => (log # <<>> /\ log[Len(log)].req = "del_svc")
    /\ pc = "del_svc" => (log = <<>> \/ log[Len(log)].req \in {"restart_pod", "body"})

\* restart_pod on a started session has returned: stop phase, then start phase
C22_Witness ==
    /\ Done /\ op = "restart_pod"
    /\ pre.m_started
    /\ ret = Return("started")
    /\ RestartAt(1)

\* C26: after any sequence of Facade operations, raising ones included, a Facade
\* marked started holds a Manager that is itself marked started.
C26_FacadeAgreesWithManager ==
    (mode = "facade" /\ (Idle \/ Done)) =>
        (f_started => (f_pod_manager /\ m_started))

C28_NoCreateWhileTerminating ==
    /\ (pc = "create_pod" /\ Requests("restart_pod") > 0) => pod[session_id] # "terminating"
    /\ \A i \in DOMAIN log :
        (i > 1 /\ log[i] = Req("create_pod", "conflict")) => log[i - 1] # Req("del_pod", "ok")

\* the workload delete of a restart's stop phase was refused
DeleteRefused == Has("del_pod", "error") \/ Has("del_pod", "not_found")

\* C29: when the workload delete fails during restart(), the start phase is not
\* attempted and restart() raises; the session stays marked started although
\* its service has been deleted, and a later stop() issues both delete requests
\* again.
C29_FailedStopKeepsStarted ==
    /\ (Done /\ op = "restart_pod" /\ pre.m_started /\ DeleteRefused) =>
           /\ ret = Raise("pod_deletion_failed")
           /\ Requests("create_pod") = 0
           /\ Len(log) = 3
           /\ m_started
           /\ log[2] = Req("del_svc", "ok") => ~svc[session_id]
    /\ (Done /\ op = "stop_pod" /\ prev.op = "restart_pod"
             /\ prev.val = "pod_deletion_failed") =>
           (pre.m_started /\ Requests("del_svc") = 1 /\ Requests("del_pod") = 1)

\* the stop() after the failed restart finds the service gone and deletes the
\* workload
C29_Witness ==
    /\ Done /\ op = "stop_pod"
    /\ prev.op = "restart_pod" /\ prev.val = "pod_deletion_failed"
    /\ log = <<Req("del_svc", "not_found"), Req("del_pod", "ok")>>
    /\ ~m_started

\* C30: every call of Manager.execute_code on a started session eventually
\* completes, returning or raising, provided each scheduler request returns:
\* the post is bounded by its timeout and the recovery path (stop, create, at
\* most 60 readiness polls, create service) is finite.  (SpecExecute)
C30_ExecuteCompletes ==
    (op = "execute_code") ~> Done

\* a call that went through the whole recovery path has completed
C30_Witness ==
    /\ Done /\ op = "execute_code"
    /\ pre.m_started
    /\ ret = Raise("timed_out_restarted")
    /\ RestartAt(2)

\* the timeout failure as the Manager reads it
TimeoutFailure(c) ==
    /\ call[c].resp.status = 200
    /\ ~call[c].resp.success
    /\ Body(call[c].resp).result = PyNone
    /\ Body(call[c].resp).error =
           PyStr("Execution timed out after " \o ToString(timeout) \o " seconds")

\* C23: when submitted code is still running at the request's deadline (code
\* that never ends included), POST /execute answers at the deadline with a
\* structured failure reporting the timeout instead of waiting for the code: at
\* the deadline the answer is due, no request stays unanswered beyond it, and an
\* answer given while the code runs is the timeout failure, given at the
\* deadline.  (SpecEndpoint)
C23_AnswersAtDeadline ==
    \A c \in Calls :
        /\ (call[c].pc = "post" /\ call[c].resp = NoWire /\ call[c].worker = "running"
                /\ call[c].age = timeout) => ENABLED EndpointDeadline(c)
        /\ (call[c].pc = "post" /\ call[c].resp = NoWire /\ call[c].worker # "none") =>
               call[c].age <= timeout
        /\ (call[c].resp # NoWire /\ call[c].worker = "running") =>
               (TimeoutFailure(c) /\ call[c].age = timeout)

\* code that never ends has been answered with the timeout failure
C23_Witness ==
    \E c \in Calls :
        /\ call[c].pc = "post"
        /\ call[c].code = Forever
        /\ call[c].worker = "running"
        /\ call[c].resp # NoWire
        /\ TimeoutFailure(c)

\* C24: the endpoint's timeout answer does not cancel the worker running the
\* request's code: the worker stays as it was when the answer is given, a
\* running worker ends only by its code ending or by the restart that destroys
\* the workload, and meanwhile later requests are accepted and run.
\* (SpecEndpoint)
C24_WorkerOutlivesAnswer ==
    [][\A c \in Calls :
          /\ (call[c].pc = "post" /\ call[c].resp = NoWire /\ call'[c].pc = "post"
                  /\ call'[c].resp # NoWire
                  /\ ~IsTimeoutError(call[c].code.exc)
                  /\ call'[c].resp = Wire(Failure(TimeoutMessage(timeout)))) =>
                 call'[c].worker = call[c].worker
          /\ (call[c].worker = "running" /\ call'[c].worker = "none") =>
                 \E d \in Calls : call[d].pc = "post" /\ TimedOutAtManager(d)'
          /\ (call[c].worker = "running" /\ call'[c].worker \in {"finished", "raised"}) =>
                 (Working(c) /\ call[c].left = 0)]_vars

\* the worker of a request answered with the timeout is running while a request
\* posted after that answer has been run
C24_Witness ==
    \E c, d \in Calls :
        /\ c # d
        /\ call[c].pc = "done"
        /\ call[c].out.kind = "return"
        /\ TimeoutFailure(c)
        /\ call[c].worker = "running"
        /\ call[d].pc = "post"
        /\ call[d].age = 0
        /\ call[d].worker = "finished"

\* C25: each /execute request runs against a namespace built fresh for it: a name
\* bound by the code of one request is not visible to the code of a later request
\* (reading it raises NameError, and code binding no result leaves none), so the
\* answer to a request depends only on that request's code: two requests with
\* the same code get the same answer.  (SpecNamespace)
C25_AnswerDependsOnCodeOnly ==
    /\ \A c \in Calls :
        /\ (call[c].code = UseName /\ call[c].worker \in {"finished", "raised"}) =>
               (call[c].worker = "raised" /\ call[c].exc = NameError)
        /\ (call[c].code = NoResult /\ call[c].worker = "finished") => ~call[c].locals.bound
    /\ \A c, d \in Calls :
        (call[c].resp # NoWire /\ call[d].resp # NoWire /\ call[c].code = call[d].code) =>
            call[c].resp = call[d].resp

====
